---- MODULE Spec2Model ----
(***************************************************************************)
(* A state-machine model of Agent/agent.py: the console loop               *)
(* (run_coding_agent_loop), the two-node graph agent -> tools -> agent     *)
(* (call_model, should_continue, ToolNode(tools)), the textual extraction   *)
(* of tool calls in call_model, and the three file tools.                  *)
(*                                                                         *)
(* Texts are Python str values.  A model output text is a TLA+ string; what *)
(* json_repair.repair_json and json.loads make of each sample text is      *)
(* tabulated (RepairJson, JsonLoads).  File contents are sequences of      *)
(* bytes, and the text a tool sees is what Python's text-mode I/O decodes   *)
(* from them (Decode, Encode).                                             *)
(***************************************************************************)
EXTENDS Integers, Sequences, FiniteSets, TLC

VARIABLES
  messages,      \* run_coding_agent_loop: the local list `messages`
  state,         \* the graph's MessagesState["messages"] during app.invoke
  pc,            \* "input" | "agent" | "tools" | "exit" | "crashed"
  raw_response,  \* call_model: the last value returned by llm.invoke
  threads,       \* ToolNode: one worker per tool call of the batch
  finished,      \* ToolNode: the order in which the last batch's workers completed
  fs,            \* the file system: absolute path of a regular file -> bytes
  raised,        \* the exception that left run_coding_agent_loop ("" if none)
  invocations    \* number of llm.invoke calls so far

vars == <<messages, state, pc, raw_response, threads, finished, fs, raised, invocations>>

\* ---------------------------------------------------------------- bounds
\* llm.invoke calls explored in one run of the console loop.
MaxInvocations == 3
\* Length, in bytes, of the file the edit_file runs start from.
MaxLen == 3

\* ------------------------------------------------------------- sequences
Last(s) == s[Len(s)]

IsPrefix(s, t) == Len(s) <= Len(t) /\ SubSeq(t, 1, Len(s)) = s

Range(s) == {s[i] : i \in 1..Len(s)}

SeqsUpTo(S, n) == UNION {[1..k -> S] : k \in 0..n}

\* ------------------------------------------------- text-mode file content
\* The bytes a file may hold: two letters, carriage return and line feed.
FileBytes == {"T", "D", "CR", "LF"}

\* os.linesep on the platform modelled (POSIX).
LineSep == <<"LF">>

\* What reading in text mode (open(..., "r"), Path.read_text) makes of a
\* file's bytes: universal newlines, so CR LF and a lone CR both read as LF.
RECURSIVE Decode(_)
Decode(bytes) ==
  IF bytes = <<>> THEN <<>>
  ELSE IF bytes[1] = "CR"
       THEN IF Len(bytes) >= 2 /\ bytes[2] = "LF"
            THEN <<"LF">> \o Decode(SubSeq(bytes, 3, Len(bytes)))
            ELSE <<"LF">> \o Decode(Tail(bytes))
       ELSE <<bytes[1]>> \o Decode(Tail(bytes))

\* What Path.write_text writes for a text: each "\n" becomes os.linesep.
RECURSIVE Encode(_)
Encode(text) ==
  IF text = <<>> THEN <<>>
  ELSE (IF text[1] = "LF" THEN LineSep ELSE <<text[1]>>) \o Encode(Tail(text))

\* str.find: the lowest 0-based index at which sub occurs in s, or -1.
OccursAt(s, sub, k) ==
  /\ k + Len(sub) <= Len(s)
  /\ SubSeq(s, k + 1, k + Len(sub)) = sub

Find(s, sub) ==
  IF \E k \in 0..Len(s) : OccursAt(s, sub, k)
  THEN CHOOSE k \in 0..Len(s) :
         /\ OccursAt(s, sub, k)
         /\ \A j \in 0..(k - 1) : ~OccursAt(s, sub, j)
  ELSE -1

\* str.replace(old, new, 1) for a non-empty old: the leftmost occurrence.
Replace1(s, old, new) ==
  LET k == Find(s, old)
  IN  IF k = -1 THEN s
      ELSE SubSeq(s, 1, k) \o new \o SubSeq(s, k + Len(old) + 1, Len(s))

\* ------------------------------------------------------------------ paths
\* resolve_abs_path: expanduser, then a relative path is joined to the
\* current directory and resolved.  Tabulated on the paths the runs use.
ResolveAbsPath(path_str) ==
  CASE path_str = "f"      -> "/cwd/f"
    [] path_str = "n"      -> "/cwd/n"
    [] path_str = "."      -> "/cwd"
    [] path_str = "~/f"    -> "/home/f"
    [] path_str = "/cwd/f" -> "/cwd/f"
    [] OTHER               -> "/cwd/n"

\* The directories of the tree; they are never created or removed.
Dirs == {"/cwd", "/home"}

Parent(abs) ==
  CASE abs \in {"/cwd/f", "/cwd/n"} -> "/cwd"
    [] abs = "/home/f"              -> "/home"
    [] OTHER                        -> "/"

BaseName(abs) ==
  CASE abs = "/cwd/f"  -> "f"
    [] abs = "/cwd/n"  -> "n"
    [] abs = "/home/f" -> "f"
    [] abs = "/cwd"    -> "cwd"
    [] abs = "/home"   -> "home"
    [] OTHER           -> ""

\* --------------------------------------------------------------- messages
\* A tool call's argument mapping: `keys` are the keys present, the other
\* fields their values (a field whose key is absent is not read).
NoArgs ==
  [keys |-> {}, filename |-> "", path |-> "", old_str |-> <<>>,
   new_str |-> <<>>, content |-> ""]

ReadArgs(p) == [NoArgs EXCEPT !.keys = {"filename"}, !.filename = p]

ListArgs(p) == [NoArgs EXCEPT !.keys = {"path"}, !.path = p]

EditArgs(p, old, new) ==
  [NoArgs EXCEPT !.keys = {"path", "old_str", "new_str"},
                 !.path = p, !.old_str = old, !.new_str = new]

EncodedArgs(p, c) ==
  [NoArgs EXCEPT !.keys = {"path", "content"}, !.path = p, !.content = c]

ToolCall(name, args, id) ==
  [name |-> name, args |-> args, id |-> id, type |-> "tool_call"]

\* The dict a tool returns; a field the tool does not set is left blank.
NoOutput == [path |-> "", action |-> "", content |-> <<>>, files |-> {}]

Message(type, content, tool_calls, tool_call_id, name, status, output) ==
  [type |-> type, content |-> content, tool_calls |-> tool_calls,
   tool_call_id |-> tool_call_id, name |-> name, status |-> status,
   output |-> output]

SystemMessage(content) == Message("system", content, <<>>, "", "", "", NoOutput)

HumanMessage(content) == Message("human", content, <<>>, "", "", "", NoOutput)

AIMessage(content, tool_calls) ==
  Message("ai", content, tool_calls, "", "", "", NoOutput)

\* ToolMessage: `output` stands for the JSON text of the returned dict, which
\* is the message's content when the tool succeeded.
ToolMessage(content, output, name, tool_call_id, status) ==
  Message("tool", content, <<>>, tool_call_id, name, status, output)

\* ------------------------------------------------------------ file tools
\* What a tool function does: the exception it raises ("" if none), the dict
\* it returns, and the file system it leaves.
Returned(output, files) == [exc |-> "", output |-> output, files |-> files]

Raised(exc, files) == [exc |-> exc, output |-> NoOutput, files |-> files]

\* open(path, "r") / Path.read_text on a path that is no regular file.
OpenError(full_path) ==
  IF full_path \in Dirs THEN "IsADirectoryError" ELSE "FileNotFoundError"

\* A plausible slip: the text is appended to what the file holds (mode "a").
WriteTextAppend(files, full_path, text) ==
  [q \in DOMAIN files \cup {full_path} |->
     IF q = full_path
     THEN (IF q \in DOMAIN files THEN files[q] ELSE <<>>) \o Encode(text)
     ELSE files[q]]

\* Path.write_text: creates or truncates the file, then writes the text.
WriteText(files, full_path, text) ==
  [q \in DOMAIN files \cup {full_path} |->
     IF q = full_path THEN Encode(text) ELSE files[q]]

read_file(filename, files) ==
  LET full_path == ResolveAbsPath(filename)
  IN  IF full_path \in DOMAIN files
      THEN Returned([NoOutput EXCEPT !.path = full_path,
                                     !.content = Decode(files[full_path])], files)
      ELSE Raised(OpenError(full_path), files)

list_files(path, files) ==
  LET full_path == ResolveAbsPath(path)
      all_files ==
        {[filename |-> BaseName(q), type |-> "file"] :
           q \in {x \in DOMAIN files : Parent(x) = full_path}}
        \cup {[filename |-> BaseName(q), type |-> "dir"] :
                q \in {x \in Dirs : Parent(x) = full_path}}
  IN  IF full_path \in Dirs
      THEN Returned([NoOutput EXCEPT !.path = full_path, !.files = all_files], files)
      ELSE IF full_path \in DOMAIN files
           THEN Raised("NotADirectoryError", files)
           ELSE Raised("FileNotFoundError", files)

\* edit_file up to and including its read of the file (lines 141-148):
\* `over` tells whether the call has returned, `original` is the text read.
edit_file_read(path, old_str, new_str, files) ==
  LET full_path == ResolveAbsPath(path)
  IN  IF old_str = <<>>
      THEN IF full_path \in Dirs
           THEN Raised("IsADirectoryError", files)
                  @@ [over |-> TRUE, original |-> <<>>]
           ELSE Returned([NoOutput EXCEPT !.path = full_path,
                                          !.action = "created_file"],
                         WriteText(files, full_path, new_str))
                  @@ [over |-> TRUE, original |-> <<>>]
      ELSE IF full_path \in DOMAIN files
           THEN Returned(NoOutput, files)
                  @@ [over |-> FALSE, original |-> Decode(files[full_path])]
           ELSE Raised(OpenError(full_path), files)
                  @@ [over |-> TRUE, original |-> <<>>]

\* edit_file from the search in the text it read to its return (149-159).
edit_file_write(path, old_str, new_str, original, files) ==
  LET full_path == ResolveAbsPath(path)
  IN  IF Find(original, old_str) = -1
      THEN Returned([NoOutput EXCEPT !.path = full_path,
                                     !.action = "old_str not found"], files)
      ELSE Returned([NoOutput EXCEPT !.path = full_path, !.action = "edited"],
                    WriteText(files, full_path,
                              Replace1(original, old_str, new_str)))

\* tools = [read_file, list_files, edit_file]
RegisteredTools == {"read_file", "list_files", "edit_file"}

\* The parameters each tool function declares, all of them required.
Required(name) ==
  CASE name = "read_file"  -> {"filename"}
    [] name = "list_files" -> {"path"}
    [] name = "edit_file"  -> {"path", "old_str", "new_str"}
    [] OTHER               -> {}

\* ------------------------------------------------------ model output texts
\* The texts the completion service is taken to return.  The well-formed ones
\* are written the way json.dumps writes them, so repair_json, which loads
\* and dumps a text that already parses, returns them as they are.
TxtEmpty == ""

TxtProse == "Done."

\* Prose ending in an unpaired surrogate half (U+D800).
TxtSurrogate == "Done.<U+D800>"

TxtJsonString == "\"Done.\""

TxtNoFunction == "[{\"note\": \"x\"}]"

TxtRead ==
  "[{\"id\": \"c1\", \"type\": \"function\", \"function\": {\"name\": \"read_file\", \"arguments\": {\"filename\": \"f\"}}}]"

\* TxtRead with its closing bracket missing.
TxtReadUnclosed ==
  "[{\"id\": \"c1\", \"type\": \"function\", \"function\": {\"name\": \"read_file\", \"arguments\": {\"filename\": \"f\"}}}"

\* The element of TxtRead alone, not in a list.
TxtReadSingle ==
  "{\"id\": \"c1\", \"type\": \"function\", \"function\": {\"name\": \"read_file\", \"arguments\": {\"filename\": \"f\"}}}"

\* TxtRead with its arguments as a JSON-encoded string.
TxtReadStrArgs ==
  "[{\"id\": \"c1\", \"type\": \"function\", \"function\": {\"name\": \"read_file\", \"arguments\": \"{\\\"filename\\\": \\\"f\\\"}\"}}]"

\* One object, not a list, whose arguments are a JSON-encoded string.
TxtList ==
  "{\"function\": {\"name\": \"list_files\", \"arguments\": \"{\\\"path\\\": \\\".\\\"}\"}}"

TxtTwoReads ==
  "[{\"function\": {\"name\": \"read_file\", \"arguments\": {\"filename\": \"f\"}}}, {\"function\": {\"name\": \"read_file\", \"arguments\": {\"filename\": \"n\"}}}]"

TxtTwoEdits ==
  "[{\"id\": \"a\", \"function\": {\"name\": \"edit_file\", \"arguments\": {\"path\": \"f\", \"old_str\": \"T\", \"new_str\": \"D\"}}}, {\"id\": \"b\", \"function\": {\"name\": \"edit_file\", \"arguments\": {\"path\": \"f\", \"old_str\": \"T\", \"new_str\": \"D\"}}}]"

TxtCreate ==
  "[{\"id\": \"c2\", \"function\": {\"name\": \"edit_file\", \"arguments\": {\"path\": \"n\", \"old_str\": \"\", \"new_str\": \"T\"}}}]"

TxtFuncStr == "[{\"function\": \"read_file\"}]"

TxtNoName == "[{\"function\": {\"arguments\": {}}}]"

TxtArgsBad ==
  "[{\"function\": {\"name\": \"read_file\", \"arguments\": \"{oops\"}}]"

TxtArgsList ==
  "[{\"function\": {\"name\": \"read_file\", \"arguments\": \"[1]\"}}]"

TxtArgsNum == "[{\"function\": {\"name\": \"read_file\", \"arguments\": 5}}]"

TxtUnknown ==
  "[{\"id\": \"c9\", \"function\": {\"name\": \"write_encoded\", \"arguments\": {\"path\": \"f\", \"content\": \"VA==\"}}}]"

Texts ==
  {TxtEmpty, TxtProse, TxtSurrogate, TxtJsonString, TxtNoFunction, TxtRead,
   TxtReadUnclosed, TxtList, TxtTwoReads, TxtTwoEdits, TxtCreate, TxtFuncStr,
   TxtNoName, TxtArgsBad, TxtArgsList, TxtArgsNum, TxtUnknown, TxtReadSingle,
   TxtReadStrArgs}

\* content.encode('utf-8', 'ignore').decode('utf-8', 'ignore'): a surrogate
\* half cannot be encoded and is dropped.
Clean(content) == IF content = TxtSurrogate THEN TxtProse ELSE content

\* json_repair.repair_json: a text that parses is dumped back; a text that
\* nearly parses is completed; a text with no JSON in it gives "".
RepairJson(content) ==
  CASE content = TxtProse        -> ""
    [] content = TxtReadUnclosed -> TxtRead
    [] OTHER                     -> content

\* str.strip
Strip(text) == IF text \in {"", " ", "\n"} THEN "" ELSE text

\* One element of the parsed value, by what call_model reads of it: whether it
\* is a dict, its keys, str() of its "id", and of its "function" entry the
\* kind, the keys, the "name" and the "arguments" (a dict, a str, or other).
Element(is_dict, keys, id, func_kind, func_keys, name, args_kind, args, args_text) ==
  [is_dict |-> is_dict, keys |-> keys, id |-> id, func_kind |-> func_kind,
   func_keys |-> func_keys, name |-> name, args_kind |-> args_kind,
   args |-> args, args_text |-> args_text]

NotADict == Element(FALSE, {}, "", "none", {}, "", "none", NoArgs, "")

Function(keys, id, name, args) ==
  Element(TRUE, keys, id, "dict", {"name", "arguments"}, name, "dict", args, "")

FunctionStrArgs(name, args_text) ==
  Element(TRUE, {"function"}, "", "dict", {"name", "arguments"}, name, "str",
          NoArgs, args_text)

Parsed(kind, items) == [kind |-> kind, items |-> items]

\* json.loads of a repaired text: a list of elements, or one value.
JsonLoads(text) ==
  CASE text = TxtJsonString -> Parsed("str", <<NotADict>>)
    [] text = TxtNoFunction ->
         Parsed("list", <<Element(TRUE, {"note"}, "", "none", {}, "", "none", NoArgs, "")>>)
    [] text = TxtRead ->
         Parsed("list", <<Function({"id", "type", "function"}, "c1", "read_file",
                                   ReadArgs("f"))>>)
    [] text = TxtReadSingle ->
         Parsed("dict", <<Function({"id", "type", "function"}, "c1", "read_file",
                                   ReadArgs("f"))>>)
    [] text = TxtReadStrArgs ->
         Parsed("list", <<Element(TRUE, {"id", "type", "function"}, "c1", "dict",
                                  {"name", "arguments"}, "read_file", "str",
                                  NoArgs, "{\"filename\": \"f\"}")>>)
    [] text = TxtList ->
         Parsed("dict", <<FunctionStrArgs("list_files", "{\"path\": \".\"}")>>)
    [] text = TxtTwoReads ->
         Parsed("list", <<Function({"function"}, "", "read_file", ReadArgs("f")),
                          Function({"function"}, "", "read_file", ReadArgs("n"))>>)
    [] text = TxtTwoEdits ->
         Parsed("list",
                <<Function({"id", "function"}, "a", "edit_file",
                           EditArgs("f", <<"T">>, <<"D">>)),
                  Function({"id", "function"}, "b", "edit_file",
                           EditArgs("f", <<"T">>, <<"D">>))>>)
    [] text = TxtCreate ->
         Parsed("list", <<Function({"id", "function"}, "c2", "edit_file",
                                   EditArgs("n", <<>>, <<"T">>))>>)
    [] text = TxtFuncStr ->
         Parsed("list", <<Element(TRUE, {"function"}, "", "str", {}, "", "none",
                                  NoArgs, "")>>)
    [] text = TxtNoName ->
         Parsed("list", <<Element(TRUE, {"function"}, "", "dict", {"arguments"}, "",
                                  "dict", NoArgs, "")>>)
    [] text = TxtArgsBad ->
         Parsed("list", <<FunctionStrArgs("read_file", "{oops")>>)
    [] text = TxtArgsList ->
         Parsed("list", <<FunctionStrArgs("read_file", "[1]")>>)
    [] text = TxtArgsNum ->
         Parsed("list", <<Element(TRUE, {"function"}, "", "dict",
                                  {"name", "arguments"}, "read_file", "other",
                                  NoArgs, "")>>)
    [] text = TxtUnknown ->
         Parsed("list", <<Function({"id", "function"}, "c9", "write_encoded",
                                   EncodedArgs("f", "VA=="))>>)
    [] OTHER -> Parsed("str", <<NotADict>>)

\* json.loads of an "arguments" string: the exception it raises ("" if
\* none), whether the value is a dict, and the dict.
JsonLoadsArgs(args_text) ==
  CASE args_text = "{\"path\": \".\"}" ->
         [exc |-> "", is_dict |-> TRUE, args |-> ListArgs(".")]
    [] args_text = "{\"filename\": \"f\"}" ->
         [exc |-> "", is_dict |-> TRUE, args |-> ReadArgs("f")]
    [] args_text = "[1]" ->
         [exc |-> "", is_dict |-> FALSE, args |-> NoArgs]
    [] OTHER ->
         [exc |-> "JSONDecodeError", is_dict |-> FALSE, args |-> NoArgs]

\* "call_" + str(hash(name)): a value that depends on the name alone.
SynthId(name) ==
  CASE name = "read_file"     -> "call_hash(read_file)"
    [] name = "list_files"    -> "call_hash(list_files)"
    [] name = "edit_file"     -> "call_hash(edit_file)"
    [] name = "write_encoded" -> "call_hash(write_encoded)"
    [] OTHER                  -> "call_hash(?)"

\* -------------------------------------------------------------- call_model
\* The for loop of call_model (lines 191-204) over the elements left, with
\* the tool calls appended so far: the exception that ends it ("" if none),
\* the tool calls, and whether every "args" appended is a dict.
RECURSIVE ExtractToolCalls(_, _)
ExtractToolCalls(parsed_tools, acc) ==
  IF parsed_tools = <<>> THEN acc
  ELSE
    LET tool == Head(parsed_tools)
        rest == Tail(parsed_tools)
        loaded ==
          CASE tool.args_kind = "str"  -> JsonLoadsArgs(tool.args_text)
            [] tool.args_kind = "dict" ->
                 [exc |-> "", is_dict |-> TRUE, args |-> tool.args]
            [] OTHER -> [exc |-> "", is_dict |-> TRUE, args |-> NoArgs]
        id == IF "id" \in tool.keys THEN tool.id ELSE SynthId(tool.name)
    IN  IF ~(tool.is_dict /\ "function" \in tool.keys)
        THEN ExtractToolCalls(rest, acc)
        ELSE IF tool.func_kind # "dict"
        THEN [acc EXCEPT !.exc = "AttributeError"]
        ELSE IF loaded.exc # ""
        THEN [acc EXCEPT !.exc = loaded.exc]
        ELSE IF "name" \notin tool.func_keys
        THEN [acc EXCEPT !.exc = "KeyError"]
        ELSE ExtractToolCalls(rest,
               [acc EXCEPT !.tool_calls = Append(@, ToolCall(tool.name, loaded.args, id)),
                           !.args_ok = @ /\ loaded.is_dict])

\* Lines 187-204: the parsed value, wrapped in a list when it is not one, and
\* the loop over it.
ParseToolCalls(fixed_content) ==
  LET parsed == JsonLoads(fixed_content)
      parsed_tools == IF parsed.kind = "list" THEN parsed.items
                      ELSE <<parsed.items[1]>>
  IN  ExtractToolCalls(parsed_tools,
                       [exc |-> "", tool_calls |-> <<>>, args_ok |-> TRUE])

\* call_model after llm.invoke has returned raw: the exception that leaves
\* it ("" if none) and the message it returns.  AIMessage validates its
\* tool_calls: an "args" that is no dict is refused (ValidationError).
CallModel(raw) ==
  LET content == Clean(raw.content)
      cleaned_response == AIMessage(content, raw.tool_calls)
      fixed_content == RepairJson(content)
      got == ParseToolCalls(fixed_content)
  IN  IF Strip(fixed_content) # ""
      THEN IF got.exc = "JSONDecodeError"
           THEN [exc |-> "", response |-> AIMessage(fixed_content, <<>>)]
           ELSE IF got.exc # ""
           THEN [exc |-> got.exc, response |-> AIMessage("", <<>>)]
           ELSE IF ~got.args_ok
           THEN [exc |-> "ValidationError", response |-> AIMessage("", <<>>)]
           ELSE [exc |-> "", response |-> AIMessage("", got.tool_calls)]
      ELSE [exc |-> "", response |-> AIMessage("", <<>>)]

\* A plausible slip: routing to the tools node whatever the last message is.
\* app.invoke is given no config (line 281), so the graph runs under
\* LangGraph's default recursion_limit.
RecursionLimit == 25

\* The assistant messages of the exchange in progress: those after the last
\* human message.
ModelTurns(msgs) ==
  Cardinality({i \in DOMAIN msgs :
                 /\ msgs[i].type = "ai"
                 /\ \A j \in i..Len(msgs) : msgs[j].type # "human"})

\* A plausible slip: the limit counted in model turns, not in graph steps.
OutOfStepsPerTurn(msgs) == ModelTurns(msgs) > RecursionLimit

\* The agent node runs in the odd steps of the graph and the tools node in
\* the even ones; a step beyond the limit is not started.
OutOfSteps(msgs) == 2 * ModelTurns(msgs) > RecursionLimit

ShouldContinueAlways(msgs) == "tools"

\* Another: it ends the exchange whatever the last message asks for.
ShouldContinueNever(msgs) == "END"

\* should_continue
ShouldContinue(msgs) ==
  IF Last(msgs).tool_calls # <<>> THEN "tools" ELSE "END"

\* MessagesState's reducer, for messages that carry fresh ids: appends.
\* A plausible slip: a state key declared without the add_messages reducer
\* is overwritten by what a node returns.
AddMessagesOverwrite(left, right) == right

AddMessages(left, right) == left \o right

\* ---------------------------------------------------------------- ToolNode
\* The content of the error message for a name that is not registered (the
\* requested name itself is carried in the message's name field).
InvalidToolName == "Error: not a valid tool, try one of [read_file, list_files, edit_file]."

NoMessage == ToolMessage("", NoOutput, "", "", "")

\* A plausible slip: every name is taken as registered.
ValidateToolCallNone(call) == [valid |-> TRUE, message |-> NoMessage]

\* ToolNode's check of the requested name against tools_by_name.
ValidateToolCall(call) ==
  IF call.name \in RegisteredTools
  THEN [valid |-> TRUE, message |-> NoMessage]
  ELSE [valid |-> FALSE,
        message |-> ToolMessage(InvalidToolName, NoOutput, call.name, call.id, "error")]

ErrorContent(exc) ==
  CASE exc = "FileNotFoundError"  -> "Error: FileNotFoundError Please fix your mistakes."
    [] exc = "IsADirectoryError"  -> "Error: IsADirectoryError Please fix your mistakes."
    [] exc = "NotADirectoryError" -> "Error: NotADirectoryError Please fix your mistakes."
    [] exc = "ValidationError"    -> "Error: ValidationError Please fix your mistakes."
    [] OTHER                      -> "Error: KeyError Please fix your mistakes."

\* A plausible slip: handle_tool_errors=False, the exception is re-raised.
HandleToolErrorsOff(exc, call) == [caught |-> FALSE, message |-> NoMessage]

\* ToolNode(tools) with its default handle_tool_errors=True: an exception
\* raised while a tool runs becomes an error ToolMessage for that call.
HandleToolErrors(exc, call) ==
  [caught |-> TRUE,
   message |-> ToolMessage(ErrorContent(exc), NoOutput, call.name, call.id, "error")]

\* The ToolMessage for a call that returned output.
Success(output, call) == ToolMessage("", output, call.name, call.id, "success")

Worker(call) ==
  [call |-> call, st |-> "pending", original |-> <<>>, out |-> NoMessage]

Workers(tool_calls) == [i \in 1..Len(tool_calls) |-> Worker(tool_calls[i])]

\* A plausible slip: the results in the order the workers completed.
OutputsAsCompleted(ths, fin) == [i \in 1..Len(ths) |-> ths[fin[i]].out]

\* executor.map: the results in the order of the calls.
Outputs(ths, fin) == [i \in 1..Len(ths) |-> ths[i].out]

\* What one worker does up to its first file access included: the tool it
\* runs and how far it gets.
RunOne(call, files) ==
  LET checked == ValidateToolCall(call)
      a == call.args
      done(r) == r @@ [over |-> TRUE, original |-> <<>>]
  IN  IF ~checked.valid
      THEN [exc |-> "", rejected |-> TRUE, message |-> checked.message,
            output |-> NoOutput, files |-> files, over |-> TRUE, original |-> <<>>]
      ELSE [rejected |-> FALSE, message |-> NoMessage] @@
           (IF ~(Required(call.name) \subseteq a.keys)
            THEN done(Raised("ValidationError", files))
            ELSE CASE call.name = "read_file"  -> done(read_file(a.filename, files))
                   [] call.name = "list_files" -> done(list_files(a.path, files))
                   [] call.name = "edit_file"  ->
                        edit_file_read(a.path, a.old_str, a.new_str, files)
                   [] OTHER -> done(Raised("KeyError", files)))

\* The message, if any, that ends a worker whose tool raised or returned.
Settle(r, call) ==
  IF r.exc # "" THEN HandleToolErrors(r.exc, call)
  ELSE [caught |-> TRUE, message |-> Success(r.output, call)]

\* ----------------------------------------------------------------- inputs
\* What llm.invoke may return: a text with no native tool calls, or an empty
\* text with one native tool call.
NativeCall == ToolCall("read_file", ReadArgs("f"), "call_native1")

Responses ==
  {[content |-> t, tool_calls |-> <<>>] : t \in Texts}
    \cup {[content |-> "", tool_calls |-> <<NativeCall>>]}

NoResponse == [content |-> "", tool_calls |-> <<>>]

\* What input() may return: a request, or a blank line.
UserInputs == {"hi", " "}

InitialFiles == [q \in {"/cwd/f"} |-> <<"T", "CR", "LF", "T">>]

\* ---------------------------------------------------------------- actions
\* One worker of the batch ends: with its message, or, when the exception is
\* not caught, by ending app.invoke and with it run_coding_agent_loop.
WorkerEnds(i, end, exc, files) ==
  IF end.caught
  THEN /\ threads' = [threads EXCEPT ![i].st = "done", ![i].out = end.message]
       /\ finished' = Append(finished, i)
       /\ fs' = files
       /\ UNCHANGED <<messages, state, pc, raw_response, raised, invocations>>
  ELSE /\ pc' = "crashed"
       /\ raised' = exc
       /\ state' = <<>>
       /\ threads' = <<>>
       /\ finished' = <<>>
       /\ fs' = files
       /\ UNCHANGED <<messages, raw_response, invocations>>

\* run_coding_agent_loop, lines 273-279: a line is read; a blank one is
\* skipped, any other is appended and handed to app.invoke.
UserInput ==
  /\ pc = "input"
  /\ invocations < MaxInvocations
  /\ \E user_input \in UserInputs :
       IF Strip(user_input) = ""
       THEN UNCHANGED vars
       ELSE /\ messages' = Append(messages, HumanMessage(user_input))
            /\ state' = AddMessages(<<>>, messages')
            /\ pc' = "agent"
            /\ UNCHANGED <<raw_response, threads, finished, fs, raised, invocations>>

\* lines 274-275: KeyboardInterrupt or EOFError at the prompt leaves the loop.
EndOfInput ==
  /\ pc = "input"
  /\ pc' = "exit"
  /\ UNCHANGED <<messages, state, raw_response, threads, finished, fs, raised, invocations>>

\* The agent node and the edge that follows it: call_model appends its
\* message, should_continue routes to the tools node, or to END, where
\* app.invoke returns and line 282 takes the final state.  An exception in
\* call_model is caught nowhere: it ends app.invoke and the loop, and so does
\* the GraphRecursionError of a step beyond the recursion limit.
AgentTurn(responses, budget) ==
  /\ pc = "agent"
  /\ invocations < budget
  /\ \E raw \in responses :
       LET r == CallModel(raw)
           new == AddMessages(state, <<r.response>>)
       IN  /\ raw_response' = raw
           /\ invocations' = invocations + 1
           /\ IF r.exc # ""
              THEN /\ pc' = "crashed"
                   /\ raised' = r.exc
                   /\ state' = <<>>
                   /\ UNCHANGED <<messages, threads, finished, fs>>
              ELSE IF ShouldContinue(new) = "END"
              THEN /\ pc' = "input"
                   /\ messages' = new
                   /\ state' = <<>>
                   /\ UNCHANGED <<threads, finished, fs, raised>>
              ELSE IF OutOfSteps(new)
              THEN /\ pc' = "crashed"
                   /\ raised' = "GraphRecursionError"
                   /\ state' = <<>>
                   /\ UNCHANGED <<messages, threads, finished, fs>>
              ELSE /\ pc' = "tools"
                   /\ state' = new
                   /\ threads' = Workers(r.response.tool_calls)
                   /\ finished' = <<>>
                   /\ UNCHANGED <<messages, fs, raised>>

\* The agent node, for any of the sample responses.
AgentStep == AgentTurn(Responses, MaxInvocations)

\* llm.invoke raises (line 173): nothing catches it, app.invoke and the loop
\* end, and the graph's state is dropped with the call.
ModelFails ==
  /\ pc = "agent"
  /\ invocations < MaxInvocations
  /\ invocations' = invocations + 1
  /\ pc' = "crashed"
  /\ raised' = "ModelInvocationError"
  /\ state' = <<>>
  /\ UNCHANGED <<messages, raw_response, threads, finished, fs>>

\* A worker of the tools node starts its call and runs it to the end, or,
\* for edit_file with a non-empty old_str, up to its read of the file.
ToolStart(i) ==
  /\ pc = "tools"
  /\ threads[i].st = "pending"
  /\ LET call == threads[i].call
         r == RunOne(call, fs)
         end == IF r.rejected THEN [caught |-> TRUE, message |-> r.message]
                ELSE Settle(r, call)
     IN  IF r.over
         THEN WorkerEnds(i, end, r.exc, r.files)
         ELSE /\ threads' = [threads EXCEPT ![i].st = "read",
                                            ![i].original = r.original]
              /\ UNCHANGED <<messages, state, pc, raw_response, finished, fs,
                             raised, invocations>>

\* A worker running edit_file goes on from the text it read to its return.
EditFinish(i) ==
  /\ pc = "tools"
  /\ threads[i].st = "read"
  /\ LET call == threads[i].call
         a == call.args
         r == edit_file_write(a.path, a.old_str, a.new_str, threads[i].original, fs)
     IN  WorkerEnds(i, Settle(r, call), r.exc, r.files)

\* The tools node returns once every worker has ended: the results are
\* appended and the edge tools -> agent is taken.
ToolNodeReturn ==
  /\ pc = "tools"
  /\ \A i \in DOMAIN threads : threads[i].st = "done"
  /\ state' = AddMessages(state, Outputs(threads, finished))
  /\ pc' = "agent"
  /\ threads' = <<>>
  /\ UNCHANGED <<messages, raw_response, finished, fs, raised, invocations>>

\* ---------------------------------------------------------- specifications
Init ==
  /\ messages = <<SystemMessage("enhanced_system_prompt")>>
  /\ state = <<>>
  /\ pc = "input"
  /\ raw_response = NoResponse
  /\ threads = <<>>
  /\ finished = <<>>
  /\ fs = InitialFiles
  /\ raised = ""
  /\ invocations = 0

Next ==
  \/ UserInput
  \/ EndOfInput
  \/ AgentStep
  \/ ModelFails
  \/ \E i \in DOMAIN threads : ToolStart(i)
  \/ \E i \in DOMAIN threads : EditFinish(i)
  \/ ToolNodeReturn

\* The console loop, the graph and the tools.
Spec == Init /\ [][Next]_vars

\* The same, with the scheduling of the tools node: the thread pool runs every
\* worker it was given to its end, and the node returns once all have ended.
SpecFair ==
  /\ Spec
  /\ WF_vars(\E i \in DOMAIN threads : ToolStart(i))
  /\ WF_vars(\E i \in DOMAIN threads : EditFinish(i))
  /\ WF_vars(ToolNodeReturn)

\* Ctrl-C.  At the prompt input() raises KeyboardInterrupt, which lines
\* 274-275 catch to leave the loop.  Inside app.invoke (line 281) nothing
\* catches it: during the model's invocation it ends the program at once,
\* during a tool batch once the workers that are running have ended (the
\* thread pool is shut down waiting for them).
Interrupt ==
  \/ /\ pc = "input"
     /\ pc' = "exit"
     /\ UNCHANGED <<messages, state, raw_response, threads, finished, fs,
                    raised, invocations>>
  \/ /\ pc = "agent"
     /\ pc' = "crashed"
     /\ raised' = "KeyboardInterrupt"
     /\ state' = <<>>
     /\ UNCHANGED <<messages, raw_response, threads, finished, fs, invocations>>
  \/ /\ pc = "tools"
     /\ \A i \in DOMAIN threads : threads[i].st = "done"
     /\ pc' = "crashed"
     /\ raised' = "KeyboardInterrupt"
     /\ state' = <<>>
     /\ threads' = <<>>
     /\ UNCHANGED <<messages, raw_response, finished, fs, invocations>>

NextInterrupt == Next \/ Interrupt

\* The program, with a user who may press Ctrl-C at any time.
SpecInterrupt == Init /\ [][NextInterrupt]_vars

\* One edit_file call, alone in its batch, on a file of any content (or on no
\* file), with any old_str and new_str.
InitEdit ==
  /\ \E bytes \in SeqsUpTo(FileBytes, MaxLen), present \in BOOLEAN :
       fs = IF present THEN [q \in {"/cwd/f"} |-> bytes]
            ELSE [q \in {} |-> <<>>]
  /\ \E old \in SeqsUpTo(FileBytes, 2), new \in SeqsUpTo(FileBytes, 1) :
       LET call == ToolCall("edit_file", EditArgs("f", old, new), "e1")
       IN  /\ state = <<SystemMessage("enhanced_system_prompt"), HumanMessage("hi"),
                        AIMessage("", <<call>>)>>
           /\ threads = Workers(<<call>>)
  /\ messages = <<SystemMessage("enhanced_system_prompt"), HumanMessage("hi")>>
  /\ pc = "tools"
  /\ raw_response = NoResponse
  /\ finished = <<>>
  /\ raised = ""
  /\ invocations = 1

\* The call that has returned is made again, with the same arguments.
Reissue ==
  /\ pc = "tools"
  /\ invocations < MaxInvocations
  /\ threads # <<>>
  /\ \A i \in DOMAIN threads : threads[i].st = "done"
  /\ threads' = Workers([i \in DOMAIN threads |-> threads[i].call])
  /\ finished' = <<>>
  /\ invocations' = invocations + 1
  /\ UNCHANGED <<messages, state, pc, raw_response, fs, raised>>

NextEdit ==
  \/ \E i \in DOMAIN threads : ToolStart(i)
  \/ \E i \in DOMAIN threads : EditFinish(i)
  \/ Reissue

SpecEdit == InitEdit /\ [][NextEdit]_vars

\* One exchange, from its first model turn, for as long as it lasts: the
\* model answers each turn with one of two tool calls or with prose.
LoopResponses == {r \in Responses : r.content \in {TxtList, TxtRead, TxtProse}}

InitLoop ==
  /\ messages = <<SystemMessage("enhanced_system_prompt"), HumanMessage("hi")>>
  /\ state = messages
  /\ pc = "agent"
  /\ raw_response = NoResponse
  /\ threads = <<>>
  /\ finished = <<>>
  /\ fs = InitialFiles
  /\ raised = ""
  /\ invocations = 0

\* The agent node with no bound on the number of invocations but the graph's
\* own (the budget given here is never what stops it).
AgentStepLoop == AgentTurn(LoopResponses, RecursionLimit)

NextLoop ==
  \/ AgentStepLoop
  \/ \E i \in DOMAIN threads : ToolStart(i)
  \/ ToolNodeReturn

SpecLoop == InitLoop /\ [][NextLoop]_vars

\* -------------------------------------------------------------- properties
\* The transcript of the exchange in progress, or the controller's.
Current == IF pc \in {"agent", "tools"} THEN state ELSE messages

\* The last assistant message of a transcript that holds one.
LastAI(msgs) ==
  msgs[CHOOSE i \in 1..Len(msgs) :
         /\ msgs[i].type = "ai"
         /\ \A j \in (i + 1)..Len(msgs) : msgs[j].type # "ai"]

HasAI(msgs) == \E i \in 1..Len(msgs) : msgs[i].type = "ai"

\* The assistant message at i, with N tool calls, is followed by exactly N
\* tool messages that carry the N ids in the order of the calls.
Answered(msgs, i) ==
  LET N == Len(msgs[i].tool_calls)
  IN  /\ i + N <= Len(msgs)
      /\ \A k \in 1..N :
           /\ msgs[i + k].type = "tool"
           /\ msgs[i + k].tool_call_id = msgs[i].tool_calls[k].id
      /\ i + N < Len(msgs) => msgs[i + N + 1].type # "tool"

ToolResultsFollow(msgs, batch_open) ==
  \A i \in 1..Len(msgs) :
    (msgs[i].type = "ai" /\ msgs[i].tool_calls # <<>>) =>
      \/ Answered(msgs, i)
      \/ batch_open /\ i = Len(msgs)

\* C1: every assistant message with N >= 1 tool calls is followed by exactly
\* N tool messages carrying the calls' ids in the order of the calls, in the
\* graph's transcript and in the controller's; only while the tools node is
\* running may the last assistant message be unanswered, so the model is
\* never invoked before all N results are appended, whatever order the
\* workers complete in.
C1_ResultsInCallOrder ==
  /\ ToolResultsFollow(messages, FALSE)
  /\ ToolResultsFollow(state, pc = "tools")

\* C1 witness: a batch of two calls whose second worker completed first has
\* been appended, first call first, and the model is about to be invoked.
C1_Witness ==
  /\ pc = "agent"
  /\ finished = <<2, 1>>
  /\ Len(state) >= 3
  /\ state[Len(state) - 2].type = "ai"
  /\ state[Len(state) - 1].tool_call_id = "a"
  /\ state[Len(state)].tool_call_id = "b"

IsFinal(m) == m.type = "ai" /\ m.tool_calls = <<>>

NoToolAfterFinal(msgs) ==
  \A i \in 1..(Len(msgs) - 1) : IsFinal(msgs[i]) => msgs[i + 1].type # "tool"

\* C2: an assistant message with no tool calls ends the exchange: the graph
\* is never running (neither node is next) with such a message last in its
\* transcript, and in no transcript does a tool message follow one.
C2_FinalAnswerEndsExchange ==
  /\ pc \in {"agent", "tools"} => ~IsFinal(Last(state))
  /\ NoToolAfterFinal(state)
  /\ NoToolAfterFinal(messages)

\* C2 witness: after a round of tools, an assistant message with no tool
\* calls has been returned and the controller is back at the prompt with it.
C2_Witness ==
  /\ pc = "input"
  /\ Len(messages) >= 4
  /\ IsFinal(Last(messages))
  /\ messages[Len(messages) - 1].type = "tool"

\* C3: when the response carries native tool calls, the assistant message
\* made from it carries exactly those calls.
C3_NativeCallsPassedThrough ==
  (raised = "" /\ raw_response.tool_calls # <<>> /\ HasAI(Current)) =>
    LastAI(Current).tool_calls = raw_response.tool_calls

\* C4: when the textual path extracts no tool call from a text that is not
\* blank, the assistant message's content is that text, or its repaired
\* form, and is not empty.
C4_ProseKeptAsContent ==
  (/\ raised = ""
   /\ raw_response.tool_calls = <<>>
   /\ Strip(Clean(raw_response.content)) # ""
   /\ HasAI(Current)
   /\ LastAI(Current).tool_calls = <<>>) =>
    /\ LastAI(Current).content # ""
    /\ LastAI(Current).content \in
         {raw_response.content, Clean(raw_response.content),
          RepairJson(Clean(raw_response.content))}

\* Texts shaped like tool calls but malformed: a function entry that is no
\* object, no name, arguments that do not parse, arguments that are no object.
MalformedTexts == {TxtFuncStr, TxtNoName, TxtArgsBad, TxtArgsList}

\* C5: the extraction never raises: no exception of call_model's parsing
\* leaves the exchange, and a malformed tool-call text gives an assistant
\* message with that text as content and no tool call.
C5_ExtractionNeverRaises ==
  /\ raised \notin {"AttributeError", "KeyError", "ValidationError", "JSONDecodeError"}
  /\ (raised = "" /\ raw_response.content \in MalformedTexts /\ HasAI(Current)) =>
       /\ LastAI(Current).tool_calls = <<>>
       /\ LastAI(Current).content # ""

UniqueIds(m) ==
  \A j, k \in 1..Len(m.tool_calls) :
    j # k => m.tool_calls[j].id # m.tool_calls[k].id

\* C6: the tool calls of one assistant message have pairwise different ids.
C6_IdsUniqueInMessage ==
  /\ \A i \in 1..Len(state) : UniqueIds(state[i])
  /\ \A i \in 1..Len(messages) : UniqueIds(messages[i])

\* C7: when a model invocation fails, the transcript the controller holds
\* afterwards contains every message the exchange had appended up to then.
C7_ModelFailureKeepsTranscript ==
  [][(pc = "agent" /\ raised = "" /\ raised' = "ModelInvocationError") =>
       IsPrefix(state, messages')]_vars

\* The calls that fail in their tool: a required argument is missing, or the
\* path is not what the tool needs.
Fails(call, files) ==
  LET a == call.args
  IN  \/ call.name = "read_file" /\
           ("filename" \notin a.keys \/ ResolveAbsPath(a.filename) \notin DOMAIN files)
      \/ call.name = "list_files" /\
           ("path" \notin a.keys \/ ResolveAbsPath(a.path) \notin {"/cwd", "/home"})
      \/ call.name = "edit_file" /\
           \/ ~({"path", "old_str", "new_str"} \subseteq a.keys)
           \/ a.old_str # <<>> /\ ResolveAbsPath(a.path) \notin DOMAIN files

C9_UnknownToolRejected ==
  [][\A i \in DOMAIN threads :
       (/\ pc = "tools"
        /\ threads[i].st = "pending"
        /\ threads[i].call.name \notin {"read_file", "list_files", "edit_file"}
        /\ ~(pc' = "tools" /\ threads'[i] = threads[i])) =>
         /\ pc' = "tools"
         /\ threads'[i].st = "done"
         /\ threads'[i].out.type = "tool"
         /\ threads'[i].out.status = "error"
         /\ threads'[i].out.content = InvalidToolName
         /\ threads'[i].out.tool_call_id = threads[i].call.id
         /\ fs' = fs]_vars

\* C9 witness: the call of write_encoded has been answered by the
\* not-a-valid-tool message, with no file touched.
C9_Witness ==
  /\ pc = "agent"
  /\ Last(state).type = "tool"
  /\ Last(state).content = InvalidToolName
  /\ Last(state).tool_call_id = "c9"
  /\ fs = InitialFiles

\* C10: an edit_file call with a non-empty old_str that occurs in the file's
\* bytes reports "edited" and leaves the file with its lowest-offset
\* occurrence replaced by new_str and every other byte as it was.
C10_FirstOccurrenceOnly ==
  [][\A i \in DOMAIN threads :
       LET a == threads[i].call.args
           full_path == ResolveAbsPath(a.path)
       IN  (/\ threads[i].st = "read"
            /\ threads'[i].st = "done"
            /\ Find(fs[full_path], a.old_str) # -1) =>
             /\ threads'[i].out.output.action = "edited"
             /\ fs'[full_path] = Replace1(fs[full_path], a.old_str, a.new_str)]_vars

\* C11: an edit_file call with a non-empty old_str that does not occur in
\* the file's bytes returns "old_str not found", raises nothing, and leaves
\* the file system as it was.
C11_AbsentLeavesFile ==
  [][\A i \in DOMAIN threads :
       LET a == threads[i].call.args
           full_path == ResolveAbsPath(a.path)
       IN  (/\ threads[i].st = "read"
            /\ threads'[i].st = "done"
            /\ Find(fs[full_path], a.old_str) = -1) =>
             /\ threads'[i].out.status = "success"
             /\ threads'[i].out.output.action = "old_str not found"
             /\ fs' = fs]_vars

\* C12: an edit_file call with an empty old_str reports "created_file" and
\* leaves the file, whether it existed or not, holding exactly new_str, and
\* every other file as it was; made again with the same arguments it changes
\* nothing.
C12_CreateIsIdempotent ==
  [][\A i \in DOMAIN threads :
       LET a == threads[i].call.args
           full_path == ResolveAbsPath(a.path)
       IN  (/\ threads[i].st = "pending"
            /\ threads'[i].st = "done"
            /\ threads[i].call.name = "edit_file"
            /\ a.old_str = <<>>) =>
             /\ threads'[i].out.status = "success"
             /\ threads'[i].out.output.action = "created_file"
             /\ DOMAIN fs' = DOMAIN fs \cup {full_path}
             /\ fs'[full_path] = a.new_str
             /\ \A q \in DOMAIN fs \ {full_path} : fs'[q] = fs[q]
             /\ invocations > 1 => fs' = fs]_vars

\* C12 witness: the call with an empty old_str and a new_str that is not
\* empty has been made a second time, and the file holds new_str.
C12_Witness ==
  /\ invocations >= 2
  /\ Len(threads) = 1
  /\ threads[1].st = "done"
  /\ threads[1].call.args.old_str = <<>>
  /\ threads[1].call.args.new_str # <<>>
  /\ threads[1].out.output.action = "created_file"
  /\ fs["/cwd/f"] = threads[1].call.args.new_str

\* The bytes a base64 payload stands for (the payloads of the sample texts).
Base64Decode(content) == IF content = "VA==" THEN <<"T">> ELSE <<>>

\* C13: write_encoded is one of the tools on offer: a write_encoded call
\* that has returned succeeded and left the file holding the decoded payload.
C13_EncodedWritesOffered ==
  \A i \in DOMAIN threads :
    (threads[i].st = "done" /\ threads[i].call.name = "write_encoded") =>
      LET a == threads[i].call.args
          full_path == ResolveAbsPath(a.path)
      IN  /\ threads[i].call.name \in RegisteredTools
          /\ threads[i].out.status = "success"
          /\ full_path \in DOMAIN fs
          /\ fs[full_path] = Base64Decode(a.content)

\* C14: the transcript is append-only.  The controller's transcript before
\* any step is a prefix of the one after it, and so is the transcript of the
\* exchange in progress across every model turn, tool turn and hand-over
\* between the controller and the graph (a step that ends the program with
\* an exception completes no turn).
C14_TranscriptAppendOnly ==
  [][/\ IsPrefix(messages, messages')
     /\ pc' # "crashed" =>
          /\ IsPrefix(Current, Current')
          /\ Len(Current') >= Len(Current)]_vars

\* C14 witness: a second exchange has ended after a first one with a tool
\* turn, all of it in the controller's transcript.
C14_Witness ==
  /\ pc = "input"
  /\ Cardinality({i \in DOMAIN messages : messages[i].type = "human"}) = 2
  /\ \E i \in DOMAIN messages : messages[i].type = "tool"
  /\ IsFinal(Last(messages))

C16_NoIterationBudget ==
  [][(/\ pc = "agent"
      /\ pc' # "agent"
      /\ raised' # "ModelInvocationError"
      /\ CallModel(raw_response').exc = ""
      /\ CallModel(raw_response').response.tool_calls # <<>>) =>
        pc' = "tools"]_vars

\* C16, amended: an exchange returns to awaiting input only on an assistant
\* message without tool calls, and a model turn answered with tool calls
\* leads to a tool turn as long as that turn is within the graph's recursion
\* limit; beyond it the exchange, and the program, ends with
\* GraphRecursionError.
C16_RecursionLimitBounds ==
  [][/\ (pc \in {"agent", "tools"} /\ pc' = "input") =>
          IsFinal(Last(messages'))
     /\ (pc = "agent" /\ pc' = "tools") =>
          /\ Last(state').tool_calls # <<>>
          /\ 2 * ModelTurns(state') <= RecursionLimit
     /\ (pc = "agent" /\ pc' = "crashed") =>
          /\ raised' = "GraphRecursionError"
          /\ 2 * ModelTurns(state) + 2 > RecursionLimit
          /\ CallModel(raw_response').response.tool_calls # <<>>]_vars

\* C16 witness: the exchange has ended with GraphRecursionError.
C16_Witness == pc = "crashed" /\ raised = "GraphRecursionError"

\* C17: a user interrupt aborts only the step in flight.  After it the
\* controller awaits input again, and its transcript holds every message
\* appended so far.
C17_InterruptAbortsStepOnly ==
  [][Interrupt => /\ pc' = "input"
                  /\ IsPrefix(Current, messages')]_vars

\* C18: in the textual path a single tool-call object yields the tool calls
\* of the one-element list that holds it, arguments given as a JSON-encoded
\* string yield the mapping they encode, and every tool call built has a
\* mapping for its arguments.
C18_TextualNormalisation ==
  LET text == RepairJson(Clean(raw_response.content))
      got == ParseToolCalls(text)
  IN  /\ text = TxtReadSingle => got = ParseToolCalls(TxtRead)
      /\ text = TxtReadStrArgs => got = ParseToolCalls(TxtRead)
      /\ text = TxtList =>
           got.tool_calls =
             <<ToolCall("list_files", ListArgs("."), SynthId("list_files"))>>
      /\ got.args_ok

\* C19: no update is lost between the edit_file calls of one batch.  When
\* both calls of a batch have replaced old_str in the same file and reported
\* "edited", no occurrence of old_str is left in a file that held two.
C19_NoLostUpdate ==
  (/\ pc = "tools"
   /\ Len(threads) = 2
   /\ \A i \in DOMAIN threads :
        /\ threads[i].st = "done"
        /\ threads[i].call.name = "edit_file"
        /\ threads[i].call.args = threads[1].call.args
        /\ threads[i].out.status = "success"
        /\ threads[i].out.output.action = "edited") =>
    LET a == threads[1].call.args
    IN  Find(fs[ResolveAbsPath(a.path)], a.old_str) = -1

====
